---- MODULE Spec2Model ----
(***************************************************************************)
(* Owner/Company API (src/main.py): two in-memory dictionaries, `owners`   *)
(* and `companies`, and the FastAPI handlers that read and write them.     *)
(*                                                                         *)
(* A Python dict is a sequence of <<key, value>> items in insertion order  *)
(* (no key twice).  An Optional value is None (the empty sequence) or      *)
(* Some(x) (a one-element sequence), so that None equals no value.         *)
(***************************************************************************)
EXTENDS Integers, Sequences, FiniteSets, TLC

VARIABLES
    companies,  \* main.py:23  companies: Dict[int, CompanyRead]
    owners,     \* main.py:22  owners: Dict[int, OwnerRead]
    last,       \* the last request served one at a time, and its response
    pc,         \* per worker thread: the line its handler is about to run
    req,        \* per worker thread: the request it is serving
    resp,       \* per worker thread: the response of its last request
    raced,      \* per worker thread: another thread wrote the dict it tested
    observed    \* the kinds of anomalous outcome seen so far

vars == <<companies, owners, last, pc, req, resp, raced, observed>>

\* ------------------------------------------------------------------ bounds

\* Longest embedded Companies list of an owner payload.
MaxEmbedded == 2

\* ---------------------------------------------------------- Python values

None == <<>>
Some(x) == <<x>>

Digits == <<"0", "1", "2", "3", "4", "5", "6", "7", "8", "9">>

\* str(n) of a non-negative int.
RECURSIVE IntToStr(_)
IntToStr(n) ==
    IF n < 10 THEN Digits[n + 1]
    ELSE IntToStr(n \div 10) \o Digits[(n % 10) + 1]

\* s with zeros put before it up to width w.
RECURSIVE PadLeft(_, _)
PadLeft(s, w) == IF Len(s) >= w THEN s ELSE PadLeft("0" \o s, w)

\* The decimal digits of n, zero-padded to width w (%04d, %02d).
ZeroPad(n, w) == PadLeft(IntToStr(n), w)

\* ---------------------------------------------------------------- dicts

Contains(d, k) == \E i \in 1..Len(d) : d[i][1] = k

GetItem(d, k) == d[CHOOSE i \in 1..Len(d) : d[i][1] = k][2]

\* d[k] = v: an existing key keeps its place, a new key goes last.
SetItem(d, k, v) ==
    IF Contains(d, k)
    THEN [i \in 1..Len(d) |-> IF d[i][1] = k THEN <<k, v>> ELSE d[i]]
    ELSE Append(d, <<k, v>>)

\* del d[k], for a key that is present.
DelItem(d, k) == SelectSeq(d, LAMBDA e : e[1] # k)

\* list(d.values())
Values(d) == [i \in 1..Len(d) |-> d[i][2]]

KeySet(d) == {d[i][1] : i \in 1..Len(d)}

\* --------------------------------------------------- models/company.py

\* CompanyBase / CompanyCreate: the validated fields of a company.
CompanyBase(ein, name, street, city, state, postal_code) ==
    [EIN |-> ein, name |-> name, street |-> street, city |-> city,
     state |-> state, postal_code |-> postal_code]

\* CompanyRead(**company.model_dump()): every field of the payload copied by
\* name, created_at and updated_at from datetime.utcnow.
CompanyRead(company, now) ==
    [EIN |-> company.EIN, name |-> company.name, street |-> company.street,
     city |-> company.city, state |-> company.state,
     postal_code |-> company.postal_code,
     created_at |-> now, updated_at |-> now]

\* ----------------------------------------------------- models/owner.py

\* datetime.date
Date(y, m, d) == [year |-> y, month |-> m, day |-> d]

\* str(date): date.isoformat(), YYYY-MM-DD.
DateToStr(d) ==
    ZeroPad(d.year, 4) \o "-" \o ZeroPad(d.month, 2) \o "-" \o ZeroPad(d.day, 2)

\* str(p.birth_date) of an Optional[date]: str(None) is "None".
StrOfBirthDate(b) == IF b = None THEN "None" ELSE DateToStr(b[1])

\* OwnerBase / OwnerCreate: the validated fields of an owner.
OwnerBase(ssn, first_name, last_name, email, phone, birth_date, cs) ==
    [ssn |-> ssn, first_name |-> first_name, last_name |-> last_name,
     email |-> email, phone |-> phone, birth_date |-> birth_date,
     Companies |-> cs]

\* OwnerRead(**owner.model_dump()): every field of the payload copied by name
\* (the embedded companies one by one), the timestamps from datetime.utcnow.
OwnerRead(owner, now) ==
    [ssn |-> owner.ssn, first_name |-> owner.first_name,
     last_name |-> owner.last_name, email |-> owner.email,
     phone |-> owner.phone, birth_date |-> owner.birth_date,
     Companies |-> [i \in 1..Len(owner.Companies) |->
                      CompanyBase(owner.Companies[i].EIN,
                                  owner.Companies[i].name,
                                  owner.Companies[i].street,
                                  owner.Companies[i].city,
                                  owner.Companies[i].state,
                                  owner.Companies[i].postal_code)],
     created_at |-> now, updated_at |-> now]

\* ----------------------------------------------------------- responses

\* What a handler leaves behind: the dict it worked on, the HTTP status, the
\* error (if any) and the records of the response body.
Result(store, status, detail, body) ==
    [store |-> store, status |-> status, detail |-> detail, body |-> body]

\* ------------------------------------------- main.py: company handlers

\* create_company without the membership test of line 37.
create_company_overwrite(store, company, now) ==
    LET stored == SetItem(store, company.EIN, CompanyRead(company, now))
    IN  Result(stored, 201, "", <<GetItem(stored, company.EIN)>>)

\* POST /companies (main.py:35-40).
create_company(store, company, now) ==
    IF Contains(store, company.EIN)
    THEN Result(store, 400, "Company with this EIN already exists", <<>>)
    ELSE LET stored == SetItem(store, company.EIN, CompanyRead(company, now))
         IN  Result(stored, 201, "", <<GetItem(stored, company.EIN)>>)

\* list_companies that skips the state filter of lines 58-59.
list_companies_no_state(store, name, street, city, state, postal_code) ==
    LET r0 == Values(store)
        r1 == IF name # None
              THEN SelectSeq(r0, LAMBDA a : a.name = name[1]) ELSE r0
        r2 == IF street # None
              THEN SelectSeq(r1, LAMBDA a : a.street = street[1]) ELSE r1
        r3 == IF city # None
              THEN SelectSeq(r2, LAMBDA a : a.city = city[1]) ELSE r2
        r5 == IF postal_code # None
              THEN SelectSeq(r3, LAMBDA a : a.postal_code = Some(postal_code[1]))
              ELSE r3
    IN  r5

\* GET /companies (main.py:42-64): one pass over the values per supplied
\* filter, each pass keeping the records whose field equals the filter.
list_companies(store, name, street, city, state, postal_code) ==
    LET r0 == Values(store)
        r1 == IF name # None
              THEN SelectSeq(r0, LAMBDA a : a.name = name[1]) ELSE r0
        r2 == IF street # None
              THEN SelectSeq(r1, LAMBDA a : a.street = street[1]) ELSE r1
        r3 == IF city # None
              THEN SelectSeq(r2, LAMBDA a : a.city = city[1]) ELSE r2
        r4 == IF state # None
              THEN SelectSeq(r3, LAMBDA a : a.state = Some(state[1])) ELSE r3
        r5 == IF postal_code # None
              THEN SelectSeq(r4, LAMBDA a : a.postal_code = Some(postal_code[1]))
              ELSE r4
    IN  r5

\* GET /companies/{company_ein} (main.py:66-70).
get_company(store, company_ein) ==
    IF ~Contains(store, company_ein)
    THEN Result(store, 404, "Company not found", <<>>)
    ELSE Result(store, 200, "", <<GetItem(store, company_ein)>>)

\* PUT /companies/{company_ein} (main.py:72-76).  CompanyCreate(company_ein)
\* hands a positional argument to a pydantic model, whose __init__ takes
\* keyword arguments only: TypeError on line 74, before the store is touched.
update_company(store, company_ein) ==
    Result(store, 500, "TypeError", <<>>)

\* DELETE /companies/{company_ein} (main.py:78-82).  After the del the
\* handler returns None, which the route's response_model=OwnerRead rejects:
\* the request ends in a response validation error.
delete_company(store, company_ein) ==
    IF ~Contains(store, company_ein)
    THEN Result(store, 404, "Company not found", <<>>)
    ELSE Result(DelItem(store, company_ein), 500, "ResponseValidationError", <<>>)

\* --------------------------------------------- main.py: owner handlers

\* create_owner that keeps the owner already stored under the ssn.
create_owner_keep_existing(store, owner, now) ==
    LET owner_read == OwnerRead(owner, now)
    IN  Result(IF Contains(store, owner_read.ssn) THEN store
               ELSE SetItem(store, owner_read.ssn, owner_read),
               201, "", <<owner_read>>)

\* POST /owner (main.py:86-91).
create_owner(store, owner, now) ==
    LET owner_read == OwnerRead(owner, now)
    IN  Result(SetItem(store, owner_read.ssn, owner_read), 201, "", <<owner_read>>)

\* p.ssn == ssn (main.py:106): p.ssn is an int (owner.py:15), ssn a str
\* (main.py:95).  An int and a str never compare equal.
SsnEqualsQuery(p_ssn, ssn) == FALSE

\* list_owners whose city filter looks at the first embedded company only.
list_owners_first_city(store, ssn, first_name, last_name, email, phone, birth_date, city) ==
    LET r0 == Values(store)
        r1 == IF ssn # None
              THEN SelectSeq(r0, LAMBDA p : SsnEqualsQuery(p.ssn, ssn[1])) ELSE r0
        r2 == IF first_name # None
              THEN SelectSeq(r1, LAMBDA p : p.first_name = first_name[1]) ELSE r1
        r3 == IF last_name # None
              THEN SelectSeq(r2, LAMBDA p : p.last_name = last_name[1]) ELSE r2
        r4 == IF email # None
              THEN SelectSeq(r3, LAMBDA p : p.email = email[1]) ELSE r3
        r5 == IF phone # None
              THEN SelectSeq(r4, LAMBDA p : p.phone = Some(phone[1])) ELSE r4
        r6 == IF birth_date # None
              THEN SelectSeq(r5, LAMBDA p :
                       StrOfBirthDate(p.birth_date) = birth_date[1])
              ELSE r5
        r7 == IF city # None
              THEN SelectSeq(r6, LAMBDA p :
                       Len(p.Companies) > 0 /\ p.Companies[1].city = city[1])
              ELSE r6
    IN  r7

\* GET /owners (main.py:93-122).
list_owners(store, ssn, first_name, last_name, email, phone, birth_date, city) ==
    LET r0 == Values(store)
        r1 == IF ssn # None
              THEN SelectSeq(r0, LAMBDA p : SsnEqualsQuery(p.ssn, ssn[1])) ELSE r0
        r2 == IF first_name # None
              THEN SelectSeq(r1, LAMBDA p : p.first_name = first_name[1]) ELSE r1
        r3 == IF last_name # None
              THEN SelectSeq(r2, LAMBDA p : p.last_name = last_name[1]) ELSE r2
        r4 == IF email # None
              THEN SelectSeq(r3, LAMBDA p : p.email = email[1]) ELSE r3
        r5 == IF phone # None
              THEN SelectSeq(r4, LAMBDA p : p.phone = Some(phone[1])) ELSE r4
        r6 == IF birth_date # None
              THEN SelectSeq(r5, LAMBDA p :
                       StrOfBirthDate(p.birth_date) = birth_date[1])
              ELSE r5
        r7 == IF city # None
              THEN SelectSeq(r6, LAMBDA p :
                       \E i \in 1..Len(p.Companies) : p.Companies[i].city = city[1])
              ELSE r6
    IN  r7

\* GET /owners/{owner_ein} (main.py:124-128).
get_owner(store, owner_ssn) ==
    IF ~Contains(store, owner_ssn)
    THEN Result(store, 404, "Owner not found", <<>>)
    ELSE Result(store, 200, "", <<GetItem(store, owner_ssn)>>)

\* PUT /owners/{owner_ein} (main.py:130-134): OwnerCreate(owner_ssn) raises
\* TypeError on line 132, as CompanyCreate(company_ein) does.
update_owner(store, owner_ssn) ==
    Result(store, 500, "TypeError", <<>>)

\* delete_owner that answers without the del of line 140.
delete_owner_no_del(store, owner_ssn) ==
    IF ~Contains(store, owner_ssn)
    THEN Result(store, 404, "Owner not found", <<>>)
    ELSE Result(store, 500, "ResponseValidationError", <<>>)

\* DELETE /owners/{owner_ssn} (main.py:136-140): returns None under
\* response_model=OwnerRead, as delete_company does.
delete_owner(store, owner_ssn) ==
    IF ~Contains(store, owner_ssn)
    THEN Result(store, 404, "Owner not found", <<>>)
    ELSE Result(DelItem(store, owner_ssn), 500, "ResponseValidationError", <<>>)

\* --------------------------------------------------------------- inputs

EINs == {1, 2}
SSNs == {1, 2}

\* datetime.utcnow(): one of two instants.
Timestamps == {"2025-01-15T10:20:30Z", "2025-01-16T12:00:00Z"}

LuckyDeli(ein) ==
    CompanyBase(ein, "Lucky Deli", "117 Broadway", "New York", Some("NY"), Some("10027"))
GreatBakery(ein) ==
    CompanyBase(ein, "Great Bakery", "112 Main St", "New York", Some("NY"), Some("10028"))
Pizza24(ein) ==
    CompanyBase(ein, "24 Pizza", "10 Downing St", "San Diego", None, None)

\* The request bodies of POST /companies.
CompanyPayloads == UNION {{LuckyDeli(e), GreatBakery(e), Pizza24(e)} : e \in EINs}

\* The companies an owner payload may embed, and the lists of at most n.
EmbeddedCompanies == {LuckyDeli(1), Pizza24(2)}
CompanyLists(n) == UNION {[1..k -> EmbeddedCompanies] : k \in 0..n}

\* The request bodies of POST /owner whose Companies list has at most n
\* entries: ssn 1 is Clara Green's, every other ssn Jack Reed's.
OwnerPayloads(n) ==
    {IF s = 1
     THEN OwnerBase(s, "Clara", "Green", "apple@gmail.com",
                    Some("+1-718-555-0053"), Some(Date(1999, 12, 10)), cs)
     ELSE OwnerBase(s, "Jack", "Reed", "123@gmail.com", None, None, cs)
     : s \in SSNs, cs \in CompanyLists(n)}

\* The query strings of GET /companies: each filter absent or a value.
CompanyFilters ==
    [name : {None, Some("Lucky Deli"), Some("24 Pizza")},
     street : {None, Some("117 Broadway"), Some("112 Main St")},
     city : {None, Some("New York"), Some("San Diego")},
     state : {None, Some("NY"), Some("CA")},
     postal_code : {None, Some("10027")}]

\* The query strings of GET /owners.
OwnerFilters ==
    [ssn : {None, Some("1"), Some("2")},
     first_name : {None, Some("Clara")},
     last_name : {None, Some("Reed")},
     email : {None, Some("apple@gmail.com")},
     phone : {None, Some("+1-718-555-0053")},
     birth_date : {None, Some("1999-12-10"), Some("None")},
     city : {None, Some("New York"), Some("San Diego")}]

NoCompanyFilter ==
    [name |-> None, street |-> None, city |-> None, state |-> None,
     postal_code |-> None]
NoOwnerFilter ==
    [ssn |-> None, first_name |-> None, last_name |-> None, email |-> None,
     phone |-> None, birth_date |-> None, city |-> None]

\* Query strings that supply the city filter alone, or nothing.
CityCompanyFilters == {f \in CompanyFilters : [f EXCEPT !.city = None] = NoCompanyFilter}
CityOwnerFilters == {f \in OwnerFilters : [f EXCEPT !.city = None] = NoOwnerFilter}

ListCompaniesBy(store, f) ==
    list_companies(store, f.name, f.street, f.city, f.state, f.postal_code)
ListOwnersBy(store, f) ==
    list_owners(store, f.ssn, f.first_name, f.last_name, f.email, f.phone,
                f.birth_date, f.city)

\* ------------------------------------------ requests served one at a time

Threads == {"t1", "t2"}

threadVars == <<pc, req, resp, raced, observed>>

NoRequest == [op |-> "", key |-> 0, payload |-> <<>>]
NoResponse == [status |-> 0, detail |-> "", body |-> <<>>, anomaly |-> ""]

\* The record of a request (its handler, path key and body) and its response.
Served(op, key, payload, r) ==
    [op |-> op, key |-> key, payload |-> payload,
     status |-> r.status, detail |-> r.detail, body |-> r.body]

Init ==
    /\ companies = <<>>
    /\ owners = <<>>
    /\ last = Served("", 0, <<>>, Result(<<>>, 0, "", <<>>))
    /\ pc = [t \in Threads |-> "idle"]
    /\ req = [t \in Threads |-> NoRequest]
    /\ resp = [t \in Threads |-> NoResponse]
    /\ raced = [t \in Threads |-> FALSE]
    /\ observed = {}

\* POST /companies with a body of P, the clock reading an instant of T.
CreateCompany(P, T) ==
    \E company \in P, now \in T :
        LET r == create_company(companies, company, now)
        IN  /\ companies' = r.store
            /\ last' = Served("create_company", company.EIN, <<company>>, r)
            /\ UNCHANGED <<owners, threadVars>>

\* GET /companies with a query string of F.
ListCompanies(F) ==
    \E f \in F :
        /\ last' = Served("list_companies", 0, <<>>,
                          Result(companies, 200, "", ListCompaniesBy(companies, f)))
        /\ UNCHANGED <<companies, owners, threadVars>>

GetCompany ==
    \E ein \in EINs :
        LET r == get_company(companies, ein)
        IN  /\ companies' = r.store
            /\ last' = Served("get_company", ein, <<>>, r)
            /\ UNCHANGED <<owners, threadVars>>

UpdateCompany ==
    \E ein \in EINs :
        LET r == update_company(companies, ein)
        IN  /\ companies' = r.store
            /\ last' = Served("update_company", ein, <<>>, r)
            /\ UNCHANGED <<owners, threadVars>>

\* delete_company that also drops the copies of the company owners embed.
DeleteCompanyCascade ==
    \E ein \in EINs :
        LET r == delete_company(companies, ein)
        IN  /\ companies' = r.store
            /\ last' = Served("delete_company", ein, <<>>, r)
            /\ owners' = [i \in 1..Len(owners) |->
                   <<owners[i][1],
                     [owners[i][2] EXCEPT !.Companies =
                         SelectSeq(@, LAMBDA c : c.EIN # ein)]>>]
            /\ UNCHANGED threadVars

DeleteCompany ==
    \E ein \in EINs :
        LET r == delete_company(companies, ein)
        IN  /\ companies' = r.store
            /\ last' = Served("delete_company", ein, <<>>, r)
            /\ UNCHANGED <<owners, threadVars>>

\* POST /owner with a body of P, the clock reading an instant of T.
CreateOwner(P, T) ==
    \E owner \in P, now \in T :
        LET r == create_owner(owners, owner, now)
        IN  /\ owners' = r.store
            /\ last' = Served("create_owner", owner.ssn, <<owner>>, r)
            /\ UNCHANGED <<companies, threadVars>>

\* GET /owners with a query string of F.
ListOwners(F) ==
    \E f \in F :
        /\ last' = Served("list_owners", 0, <<>>,
                          Result(owners, 200, "", ListOwnersBy(owners, f)))
        /\ UNCHANGED <<companies, owners, threadVars>>

GetOwner ==
    \E ssn \in SSNs :
        LET r == get_owner(owners, ssn)
        IN  /\ owners' = r.store
            /\ last' = Served("get_owner", ssn, <<>>, r)
            /\ UNCHANGED <<companies, threadVars>>

UpdateOwner ==
    \E ssn \in SSNs :
        LET r == update_owner(owners, ssn)
        IN  /\ owners' = r.store
            /\ last' = Served("update_owner", ssn, <<>>, r)
            /\ UNCHANGED <<companies, threadVars>>

DeleteOwner ==
    \E ssn \in SSNs :
        LET r == delete_owner(owners, ssn)
        IN  /\ owners' = r.store
            /\ last' = Served("delete_owner", ssn, <<>>, r)
            /\ UNCHANGED <<companies, threadVars>>

\* Both stores and every handler: two company bodies per EIN, owners that
\* embed at most one company, lists filtered by city alone.
Next ==
    \/ CreateCompany({c \in CompanyPayloads : c.name # "Great Bakery"}, Timestamps)
    \/ ListCompanies(CityCompanyFilters)
    \/ GetCompany
    \/ UpdateCompany
    \/ DeleteCompany
    \/ CreateOwner({o \in OwnerPayloads(MaxEmbedded) : Len(o.Companies) <= 1}, Timestamps)
    \/ ListOwners(CityOwnerFilters)
    \/ GetOwner
    \/ UpdateOwner
    \/ DeleteOwner

Spec == Init /\ [][Next]_vars

\* The Company Store alone, every company body and every query string.
NextCompanies ==
    \/ CreateCompany(CompanyPayloads, Timestamps)
    \/ ListCompanies(CompanyFilters)
    \/ DeleteCompany

SpecCompanies == Init /\ [][NextCompanies]_vars

\* The Owner Store alone, every owner body and every query string.
NextOwners ==
    \/ CreateOwner(OwnerPayloads(MaxEmbedded), {"2025-01-15T10:20:30Z"})
    \/ ListOwners(OwnerFilters)
    \/ DeleteOwner

SpecOwners == Init /\ [][NextOwners]_vars

\* ------------------------------------- requests served by worker threads
\* The handlers are plain `def` functions, which FastAPI runs on the threads
\* of a pool: the lines of two handlers interleave.  A thread is idle or
\* stands before a line of its handler; req and resp keep its last request
\* and response until it takes the next request.

Request(op, key, payload) == [op |-> op, key |-> key, payload |-> payload]

Response(status, detail, body, anomaly) ==
    [status |-> status, detail |-> detail, body |-> body, anomaly |-> anomaly]

\* The lines before which a thread has tested a key of `companies` / `owners`.
CompanyLines == {"create_company:39", "create_company:40", "delete_company:82"}
OwnerLines == {"delete_owner:140"}

\* raced after thread t wrote the entry under `key` of the dict whose
\* in-flight handlers stand before one of `lines`.
RacedAfterWrite(t, lines, key) ==
    [u \in Threads |->
        IF u # t /\ pc[u] \in lines /\ req[u].key = key THEN TRUE ELSE raced[u]]

Observe(anomaly) == IF anomaly = "" THEN observed ELSE observed \cup {anomaly}

\* create_company that goes on to line 39 without the test of line 37.
CreateCompanyNoTest(t) ==
    /\ pc[t] = "idle"
    /\ \E company \in {LuckyDeli(1), Pizza24(1), LuckyDeli(2)},
          now \in {"2025-01-15T10:20:30Z"} :
          req' = [req EXCEPT ![t] =
                     Request("create_company", company.EIN, <<company, now>>)]
    /\ pc' = [pc EXCEPT ![t] = "create_company:39"]
    /\ resp' = [resp EXCEPT ![t] = NoResponse]
    /\ raced' = [raced EXCEPT ![t] = FALSE]
    /\ UNCHANGED <<companies, owners, last, observed>>

\* create_company, line 37 (and 38): the membership test.
CreateCompanyTest(t) ==
    /\ pc[t] = "idle"
    /\ \E company \in {LuckyDeli(1), Pizza24(1), LuckyDeli(2)},
          now \in {"2025-01-15T10:20:30Z"} :
          /\ req' = [req EXCEPT ![t] =
                        Request("create_company", company.EIN, <<company, now>>)]
          /\ IF Contains(companies, company.EIN)
             THEN /\ pc' = pc
                  /\ resp' = [resp EXCEPT ![t] =
                        Response(400, "Company with this EIN already exists", <<>>, "")]
             ELSE /\ pc' = [pc EXCEPT ![t] = "create_company:39"]
                  /\ resp' = [resp EXCEPT ![t] = NoResponse]
    /\ raced' = [raced EXCEPT ![t] = FALSE]
    /\ UNCHANGED <<companies, owners, last, observed>>

\* create_company, line 39: companies[company.EIN] = CompanyRead(...).
CreateCompanyStore(t) ==
    /\ pc[t] = "create_company:39"
    /\ LET anomaly == IF Contains(companies, req[t].key) THEN "replaced" ELSE ""
       IN  /\ companies' = SetItem(companies, req[t].key,
                                   CompanyRead(req[t].payload[1], req[t].payload[2]))
           /\ resp' = [resp EXCEPT ![t] = Response(0, "", <<>>, anomaly)]
           /\ observed' = Observe(anomaly)
    /\ pc' = [pc EXCEPT ![t] = "create_company:40"]
    /\ raced' = RacedAfterWrite(t, CompanyLines, req[t].key)
    /\ UNCHANGED <<owners, last, req>>

\* create_company, line 40: return companies[company.EIN].
CreateCompanyReturn(t) ==
    /\ pc[t] = "create_company:40"
    /\ IF Contains(companies, req[t].key)
       THEN /\ resp' = [resp EXCEPT ![t] =
                   Response(201, "", <<GetItem(companies, req[t].key)>>, @.anomaly)]
            /\ observed' = observed
       ELSE /\ resp' = [resp EXCEPT ![t] =
                   Response(500, "KeyError", <<>>, "return_missing")]
            /\ observed' = Observe("return_missing")
    /\ pc' = [pc EXCEPT ![t] = "idle"]
    /\ UNCHANGED <<companies, owners, last, req, raced>>

\* delete_company, line 80 (and 81): the membership test.
DeleteCompanyTest(t) ==
    /\ pc[t] = "idle"
    /\ \E ein \in EINs :
          /\ req' = [req EXCEPT ![t] = Request("delete_company", ein, <<>>)]
          /\ IF ~Contains(companies, ein)
             THEN /\ pc' = pc
                  /\ resp' = [resp EXCEPT ![t] =
                        Response(404, "Company not found", <<>>, "")]
             ELSE /\ pc' = [pc EXCEPT ![t] = "delete_company:82"]
                  /\ resp' = [resp EXCEPT ![t] = NoResponse]
    /\ raced' = [raced EXCEPT ![t] = FALSE]
    /\ UNCHANGED <<companies, owners, last, observed>>

\* delete_company, line 82: del companies[company_ein], a KeyError when the
\* key is gone; otherwise the handler returns None, which the route's
\* response_model rejects.
DeleteCompanyDel(t) ==
    /\ pc[t] = "delete_company:82"
    /\ IF Contains(companies, req[t].key)
       THEN /\ companies' = DelItem(companies, req[t].key)
            /\ resp' = [resp EXCEPT ![t] =
                   Response(500, "ResponseValidationError", <<>>, "")]
            /\ observed' = observed
            /\ raced' = RacedAfterWrite(t, CompanyLines, req[t].key)
       ELSE /\ companies' = companies
            /\ resp' = [resp EXCEPT ![t] =
                   Response(500, "KeyError", <<>>, "del_missing")]
            /\ observed' = Observe("del_missing")
            /\ raced' = raced
    /\ pc' = [pc EXCEPT ![t] = "idle"]
    /\ UNCHANGED <<owners, last, req>>

\* create_owner, lines 89-91: one write of the dict, no test before it.
CreateOwnerStore(t) ==
    /\ pc[t] = "idle"
    /\ \E owner \in OwnerPayloads(0), now \in {"2025-01-15T10:20:30Z"} :
          LET r == create_owner(owners, owner, now)
          IN  /\ owners' = r.store
              /\ req' = [req EXCEPT ![t] = Request("create_owner", owner.ssn, <<>>)]
              /\ resp' = [resp EXCEPT ![t] = Response(r.status, r.detail, <<>>, "")]
              /\ raced' = [RacedAfterWrite(t, OwnerLines, owner.ssn) EXCEPT ![t] = FALSE]
    /\ UNCHANGED <<companies, last, pc, observed>>

\* delete_owner, line 138 (and 139): the membership test.
DeleteOwnerTest(t) ==
    /\ pc[t] = "idle"
    /\ \E ssn \in SSNs :
          /\ req' = [req EXCEPT ![t] = Request("delete_owner", ssn, <<>>)]
          /\ IF ~Contains(owners, ssn)
             THEN /\ pc' = pc
                  /\ resp' = [resp EXCEPT ![t] =
                        Response(404, "Owner not found", <<>>, "")]
             ELSE /\ pc' = [pc EXCEPT ![t] = "delete_owner:140"]
                  /\ resp' = [resp EXCEPT ![t] = NoResponse]
    /\ raced' = [raced EXCEPT ![t] = FALSE]
    /\ UNCHANGED <<companies, owners, last, observed>>

\* delete_owner, line 140: del owners[owner_ssn].
DeleteOwnerDel(t) ==
    /\ pc[t] = "delete_owner:140"
    /\ IF Contains(owners, req[t].key)
       THEN /\ owners' = DelItem(owners, req[t].key)
            /\ resp' = [resp EXCEPT ![t] =
                   Response(500, "ResponseValidationError", <<>>, "")]
            /\ observed' = observed
            /\ raced' = RacedAfterWrite(t, OwnerLines, req[t].key)
       ELSE /\ owners' = owners
            /\ resp' = [resp EXCEPT ![t] =
                   Response(500, "KeyError", <<>>, "del_missing")]
            /\ observed' = Observe("del_missing")
            /\ raced' = raced
    /\ pc' = [pc EXCEPT ![t] = "idle"]
    /\ UNCHANGED <<companies, last, req>>

NextConc ==
    \E t \in Threads :
        \/ CreateCompanyTest(t)
        \/ CreateCompanyStore(t)
        \/ CreateCompanyReturn(t)
        \/ DeleteCompanyTest(t)
        \/ DeleteCompanyDel(t)
        \/ CreateOwnerStore(t)
        \/ DeleteOwnerTest(t)
        \/ DeleteOwnerDel(t)

SpecConc == Init /\ [][NextConc]_vars

\* ------------------------------------------------ claims: both stores

\* A stored record without its server-assigned timestamps.
WithoutTimestamps(r) ==
    [f \in (DOMAIN r) \ {"created_at", "updated_at"} |-> r[f]]

\* The items of a dict other than the one under key k.
Others(d, k) == SelectSeq(d, LAMBDA e : e[1] # k)

\* C1: a create_company whose EIN is already a key fails with 400 and leaves
\* the store as it was, so the first record stays; a create_company whose EIN
\* is absent succeeds with 201 and adds exactly one entry, under that EIN,
\* holding the payload.
C1_CreateCompanyConflict ==
    [][last'.op = "create_company" =>
        LET company == last'.payload[1]
        IN  IF Contains(companies, company.EIN)
            THEN /\ last'.status = 400
                 /\ companies' = companies
            ELSE /\ last'.status = 201
                 /\ Len(companies') = Len(companies) + 1
                 /\ KeySet(companies') = KeySet(companies) \cup {company.EIN}
                 /\ Others(companies', company.EIN) = companies
                 /\ WithoutTimestamps(GetItem(companies', company.EIN)) = company
      ]_vars

\* A second create_company was refused, and the record stored under its EIN
\* differs from the refused payload.
C1_Witness ==
    /\ last.op = "create_company"
    /\ last.status = 400
    /\ Contains(companies, last.key)
    /\ WithoutTimestamps(GetItem(companies, last.key)) # last.payload[1]

\* C2: delete_owner of an absent ssn fails with 404; delete_owner of a present
\* ssn removes the entry; an absent ssn stays absent until a create_owner of
\* that ssn; and get_owner of an absent ssn fails with 404.
C2_DeleteOwnerThenGet ==
    [][\A k \in SSNs :
        /\ (last'.op = "delete_owner" /\ last'.key = k) =>
               IF Contains(owners, k)
               THEN ~Contains(owners', k) /\ Others(owners, k) = owners'
               ELSE last'.status = 404 /\ owners' = owners
        /\ (~Contains(owners, k) /\ ~(last'.op = "create_owner" /\ last'.key = k))
               => ~Contains(owners', k)
        /\ (last'.op = "get_owner" /\ last'.key = k /\ ~Contains(owners, k))
               => last'.status = 404 /\ last'.detail = "Owner not found"
      ]_vars

\* A delete_owner removed a stored owner while another stays, and a get_owner
\* of the removed ssn now answers 404.
C2_Witness ==
    /\ last.op = "delete_owner"
    /\ last.status # 404
    /\ ~Contains(owners, last.key)
    /\ Len(owners) = 1
    /\ get_owner(owners, last.key).status = 404

\* C3: update_company / update_owner on a key absent from its store fails
\* with NotFound (404) and creates no entry for the key.
C3_ReplaceAbsentNotFound ==
    [][/\ (last'.op = "update_company" /\ ~Contains(companies, last'.key))
            => last'.status = 404 /\ ~Contains(companies', last'.key)
       /\ (last'.op = "update_owner" /\ ~Contains(owners, last'.key))
            => last'.status = 404 /\ ~Contains(owners', last'.key)
      ]_vars

C8_FailureLeavesStores ==
    [][last'.status >= 400 => companies' = companies /\ owners' = owners]_vars

\* The handlers of each store.
CompanyOps ==
    {"create_company", "list_companies", "get_company", "update_company",
     "delete_company"}
OwnerOps ==
    {"create_owner", "list_owners", "get_owner", "update_owner", "delete_owner"}

\* C9: a Company Store handler leaves the Owner Store as it was, embedded
\* companies included, so every city listing of the owners is the same before
\* and after a delete_company; an Owner Store handler leaves the Company
\* Store as it was.
C9_NoCascade ==
    [][/\ last'.op \in CompanyOps => owners' = owners
       /\ last'.op = "delete_company" =>
              \A f \in CityOwnerFilters :
                  ListOwnersBy(owners', f) = ListOwnersBy(owners, f)
       /\ last'.op \in OwnerOps => companies' = companies
      ]_vars

\* A company was deleted from the Company Store while an owner still embeds
\* a company of that EIN and is still listed under its city.
C9_Witness ==
    /\ last.op = "delete_company"
    /\ last.status # 404
    /\ ~Contains(companies, last.key)
    /\ \E i \in 1..Len(owners) :
          /\ Len(owners[i][2].Companies) = 1
          /\ owners[i][2].Companies[1].EIN = last.key
          /\ \E j \in 1..Len(list_owners(owners, None, None, None, None, None, None,
                                         Some(owners[i][2].Companies[1].city))) :
                list_owners(owners, None, None, None, None, None, None,
                            Some(owners[i][2].Companies[1].city))[j]
                    = owners[i][2]

\* ---------------------------------------------------- claims: listings

\* How many times record r occurs in the list rs.
Occurrences(rs, r) == Cardinality({j \in 1..Len(rs) : rs[j] = r})

\* Every supplied filter of f equals the company's field of the same name.
CompanyMatches(a, f) ==
    /\ f.name # None => a.name = f.name[1]
    /\ f.street # None => a.street = f.street[1]
    /\ f.city # None => a.city = f.city[1]
    /\ f.state # None => (a.state # None /\ a.state[1] = f.state[1])
    /\ f.postal_code # None =>
          (a.postal_code # None /\ a.postal_code[1] = f.postal_code[1])

\* C4: for every query string, list_companies returns each stored company
\* that matches every supplied filter exactly once, nothing else, and with no
\* filter supplied a list as long as the store; the response of the last
\* GET /companies is such a list.
C4_ListCompaniesExact ==
    /\ \A f \in CompanyFilters :
          LET res == ListCompaniesBy(companies, f)
              vals == Values(companies)
          IN  /\ \A i \in 1..Len(vals) :
                    Occurrences(res, vals[i])
                        = IF CompanyMatches(vals[i], f) THEN 1 ELSE 0
              /\ \A j \in 1..Len(res) : \E i \in 1..Len(vals) : vals[i] = res[j]
              /\ f = NoCompanyFilter => Len(res) = Len(vals)
    /\ last.op = "list_companies" =>
          \E f \in CompanyFilters :
              /\ \A j \in 1..Len(last.body) : CompanyMatches(last.body[j], f)
              /\ Len(last.body)
                    = Cardinality({i \in 1..Len(companies) :
                                     CompanyMatches(companies[i][2], f)})

\* Two companies of New York are stored and the last listing returned
\* exactly one of them, the one named Lucky Deli.
C4_Witness ==
    /\ last.op = "list_companies"
    /\ Len(companies) = 2
    /\ \A i \in 1..2 : companies[i][2].city = "New York"
    /\ Len(last.body) = 1
    /\ last.body[1].name = "Lucky Deli"
    /\ last.body[1] = companies[1][2]

\* C5: list_owners with city=X alone returns each owner that embeds at least
\* one company of city X exactly once, and no other owner.
C5_ListOwnersByCity ==
    \A X \in {"New York", "San Diego"} :
        LET res == list_owners(owners, None, None, None, None, None, None, Some(X))
            vals == Values(owners)
        IN  /\ \A i \in 1..Len(vals) :
                  Occurrences(res, vals[i])
                      = IF \E c \in 1..Len(vals[i].Companies) :
                               vals[i].Companies[c].city = X
                        THEN 1 ELSE 0
            /\ \A j \in 1..Len(res) : \E i \in 1..Len(vals) : vals[i] = res[j]

\* The last listing returned one owner of two: the one whose second embedded
\* company, not the first, is of the city asked for; the other embeds none.
C5_Witness ==
    /\ last.op = "list_owners"
    /\ Len(owners) = 2
    /\ Len(last.body) = 1
    /\ Len(last.body[1].Companies) = 2
    /\ last.body[1].Companies[1].city = "San Diego"
    /\ last.body[1].Companies[2].city = "New York"
    /\ last.body = list_owners(owners, None, None, None, None, None, None,
                               Some("New York"))
    /\ \E i \in 1..2 : owners[i][2].Companies = <<>>

\* Every supplied direct-field filter of f equals the owner's field of the
\* same name, both sides as text: the ssn by its decimal digits, the birth
\* date by str().
OwnerDirectMatches(p, f) ==
    /\ f.ssn # None => IntToStr(p.ssn) = f.ssn[1]
    /\ f.first_name # None => p.first_name = f.first_name[1]
    /\ f.last_name # None => p.last_name = f.last_name[1]
    /\ f.email # None => p.email = f.email[1]
    /\ f.phone # None => (p.phone # None /\ p.phone[1] = f.phone[1])
    /\ f.birth_date # None => StrOfBirthDate(p.birth_date) = f.birth_date[1]

\* C6: for every query string without city, list_owners returns each stored
\* owner that matches every supplied direct-field filter exactly once, and no
\* other owner; the ssn filter with a stored owner's ssn returns that owner.
C6_ListOwnersDirectFields ==
    \A f \in {g \in OwnerFilters : g.city = None} :
        LET res == ListOwnersBy(owners, f)
            vals == Values(owners)
        IN  /\ \A i \in 1..Len(vals) :
                  Occurrences(res, vals[i])
                      = IF OwnerDirectMatches(vals[i], f) THEN 1 ELSE 0
            /\ \A j \in 1..Len(res) : \E i \in 1..Len(vals) : vals[i] = res[j]

\* ------------------------------------------------- claims: concurrency

\* C10: a create_company that stores over a key present by then, a
\* create_company that finds its key gone on return, and a delete that finds
\* its key gone at the del, happen only to a handler between whose membership
\* test and that line another thread wrote the entry under the same key: never
\* to a handler that runs its lines with no other thread's write in between.
C10_AnomalyOnlyWhenRaced ==
    \A t \in Threads : resp[t].anomaly # "" => raced[t]

\* Both races have happened: a delete found its key gone after passing the
\* membership test, and two create_company requests for the same EIN both
\* passed the test and both answered 201, the second store replacing the
\* record of the first.
C10_Witness ==
    /\ "del_missing" \in observed
    /\ \E t, u \in Threads :
          /\ t # u
          /\ pc[t] = "idle" /\ pc[u] = "idle"
          /\ req[t].op = "create_company" /\ req[u].op = "create_company"
          /\ req[t].key = req[u].key
          /\ resp[t].status = 201 /\ resp[u].status = 201
          /\ resp[t].anomaly = "" /\ resp[u].anomaly = "replaced"
          /\ resp[t].body # resp[u].body
          /\ GetItem(companies, req[u].key) = resp[u].body[1]

====
